---------------------------- MODULE Spec2Model ----------------------------
(***************************************************************************)
(* Docling API (src/app.py): a FastAPI service with three upload endpoints *)
(* (/api/process, /api/process-rag, /api/extract-tables) and /health.      *)
(*                                                                         *)
(* Each request handler is modelled as a small sequential process whose    *)
(* steps are the statements of the handler that touch the file system, the *)
(* converter or the response.  Strings the code inspects (labels, file     *)
(* names, chunk ids) are sequences of one-character strings, so that       *)
(* lower(), the `in` substring test, split() and the f-string formatting   *)
(* of chunk ids are computed rather than assumed.  Optional values (None)  *)
(* are sequences of length at most one.                                    *)
(***************************************************************************)
EXTENDS Integers, Sequences, FiniteSets, TLC

VARIABLES
    converter,   \* module global `converter` (app.py:39-61)
    startup,     \* outcome of the module-level try block (app.py:39-61)
    hashseed,    \* the process's string hash seed: fixes set iteration order
    req,         \* per request: position in its handler and its local variables
    disk,        \* the files under /tmp/docling
    access,      \* history: which request converted / unlinked whose temp file
    health       \* last body returned by GET /health

vars == <<converter, startup, hashseed, req, disk, access, health>>

---------------------------------------------------------------------------
(* Bounds of the model *)

NumRequests == 2
NumTmpNames == 2
MaxHashSeed == 1
MaxElems == 2
MaxRagElems == 2

---------------------------------------------------------------------------
(* Program constants *)

MaxFileMB == 50
BytesPerMB == 1048576

MaxBytes == MaxFileMB * BytesPerMB

---------------------------------------------------------------------------
(* Optional values and strings *)

None == <<>>
Some(v) == <<v>>
IsSome(o) == o # <<>>
The(o) == o[1]

UpperChars == <<"A","B","C","D","E","F","G","H","I","J","K","L","M",
                "N","O","P","Q","R","S","T","U","V","W","X","Y","Z">>
LowerChars == <<"a","b","c","d","e","f","g","h","i","j","k","l","m",
                "n","o","p","q","r","s","t","u","v","w","x","y","z">>

\* str.lower() on one character
LowerChar(c) ==
    IF \E i \in 1..Len(UpperChars) : UpperChars[i] = c
    THEN LowerChars[CHOOSE i \in 1..Len(UpperChars) : UpperChars[i] = c]
    ELSE c

\* str.lower()
Lower(s) == [i \in 1..Len(s) |-> LowerChar(s[i])]

\* the Python test `sub in s` on strings
Contains(sub, s) ==
    \E i \in 1..(Len(s) - Len(sub) + 1) : SubSeq(s, i, i + Len(sub) - 1) = sub

DigitChars == <<"0","1","2","3","4","5","6","7","8","9">>

\* str(n) for n >= 0, as the f-strings of the chunk ids format idx
RECURSIVE IntToStr(_)
IntToStr(n) ==
    IF n < 10 THEN <<DigitChars[n + 1]>>
    ELSE IntToStr(n \div 10) \o <<DigitChars[(n % 10) + 1]>>

IsSpace(c) == c \in {" ", "\n", "\t"}

\* len(text.split()): the number of maximal runs of non-whitespace characters
TokenCount(text) ==
    Cardinality({i \in 1..Len(text) :
                    /\ ~IsSpace(text[i])
                    /\ (i = 1 \/ IsSpace(text[i - 1]))})

StrTable == <<"t","a","b","l","e">>
StrPicture == <<"p","i","c","t","u","r","e">>
StrFigure == <<"f","i","g","u","r","e">>

\* sequences over S of length lo..hi
SeqsBetween(S, lo, hi) == UNION {[1..n -> S] : n \in lo..hi}

\* the elements of sequence s, as a set
Range(s) == {s[i] : i \in 1..Len(s)}

---------------------------------------------------------------------------
(* What the external converter and chunker hand to the handlers.           *)
(* An element has .text, .label and .prov (a list whose entries have .page  *)
(* and an optional .bbox); a document has .iterate_items(), .pages (each    *)
(* with .page_no and .tables) and the chunker's result for it, a list of    *)
(* chunks with .text and .meta.doc_items.                                   *)

LabelTable == <<"T","a","b","l","e">>
LabelPicture == StrPicture
LabelFigure == StrFigure
LabelText == <<"t","e","x","t">>
Labels == {LabelTable, LabelPicture, LabelFigure, LabelText}

TextEmpty == <<>>
TextAB == <<"a"," ","b">>
Texts == {TextEmpty, TextAB}

Box == [l |-> 1, t |-> 2, r |-> 3, b |-> 4]
ProvPage1 == [page |-> 1, bbox |-> None]
ProvPage2 == [page |-> 2, bbox |-> Some(Box)]
Provs == {<<>>, <<ProvPage1>>, <<ProvPage2, ProvPage1>>}

\* the kinds of element drawn: every label of RawLabels in three shapes (text
\* and two provenance entries; no text and no provenance; text and one
\* entry), and every label of RagLabels with every provenance list
Shapes == {[text |-> TextAB, prov |-> <<ProvPage2, ProvPage1>>],
           [text |-> TextEmpty, prov |-> <<>>],
           [text |-> TextAB, prov |-> <<ProvPage1>>]}
RawLabels == {LabelTable, LabelPicture, LabelText}
RagLabels == {LabelTable, LabelFigure, LabelText}
RawElements == {[label |-> l, text |-> sh.text, prov |-> sh.prov] : l \in RawLabels, sh \in Shapes}
RagElements == [label : RagLabels, text : {TextAB}, prov : Provs]

PageTable == [text |-> TextAB, prov |-> <<ProvPage2>>, data |-> None]
PagesTwo == <<[page_no |-> 1, tables |-> <<>>],
              [page_no |-> 2, tables |-> <<PageTable>>]>>

\* the texts of a chunk's items joined by newlines
RECURSIVE JoinText(_)
JoinText(items) ==
    IF items = <<>> THEN <<>>
    ELSE IF Len(items) = 1 THEN items[1].text
    ELSE items[1].text \o <<"\n">> \o JoinText(Tail(items))

\* every way to cut a list of items into consecutive non-empty runs
RECURSIVE Splits(_)
Splits(s) ==
    IF s = <<>> THEN {<<>>}
    ELSE UNION {{<<SubSeq(s, 1, k)>> \o rest :
                    rest \in Splits(SubSeq(s, k + 1, Len(s)))} : k \in 1..Len(s)}

\* one chunker result: each run of items becomes a chunk
ChunksOf(split) ==
    [i \in 1..Len(split) |->
        [text |-> JoinText(split[i]), meta |-> [doc_items |-> split[i]]]]

EmptyDoc == [items |-> <<>>, pages |-> <<>>, chunks |-> <<>>]

RawDocs ==
    {[items |-> it, pages |-> PagesTwo, chunks |-> <<>>] :
        it \in SeqsBetween(RawElements, 0, MaxElems)}

RagDocs ==
    UNION {{[items |-> it, pages |-> PagesTwo, chunks |-> ChunksOf(sp)] :
                sp \in Splits(it)} : it \in SeqsBetween(RagElements, 0, MaxRagElems)}

SampleItems == <<[label |-> LabelText, text |-> TextAB, prov |-> <<ProvPage1>>],
                 [label |-> LabelTable, text |-> TextAB, prov |-> <<ProvPage2, ProvPage1>>]>>
SampleDoc == [items |-> SampleItems, pages |-> PagesTwo,
              chunks |-> ChunksOf(<<SampleItems>>)]

FileName == <<"a",".","p","d","f">>

\* an upload: its file name and its bytes (their length, and the document
\* the converter makes of them)
Upload(size, doc) == [filename |-> FileName, content |-> [size |-> size, doc |-> doc]]

RawUploads == {Upload(BytesPerMB, d) : d \in RawDocs}
RagUploads == {Upload(BytesPerMB, d) : d \in RagDocs}
LifeUploads == {Upload(MaxBytes, SampleDoc), Upload(MaxBytes + 1, SampleDoc)}
BoundaryOffsets == {0 - 52429, 0 - 1, 0, 1, 52428, 52429, 104858}
BoundaryUploads == {Upload(MaxBytes + d, SampleDoc) : d \in BoundaryOffsets}

ProcessDefaults == [extract_tables |-> TRUE, extract_images |-> FALSE, do_ocr |-> TRUE]
ProcessParams == [extract_tables : BOOLEAN, extract_images : BOOLEAN, do_ocr : {TRUE}]
RagDefaults == [chunk_size |-> 512, chunk_overlap |-> 50, merge_peers |-> TRUE]
TablesParams == [file_only |-> TRUE]

---------------------------------------------------------------------------
(* Size arithmetic.  file_size_mb = len(content) / (1024 * 1024) is exact   *)
(* in binary floating point (a division by a power of two), so the float    *)
(* comparisons and roundings below are those of the exact quotient.         *)

\* n / d rounded to the nearest integer, ties to even (round(), format())
RoundHalfEven(n, d) ==
    LET q == n \div d
        r == n % d
    IN  IF 2 * r > d THEN q + 1
        ELSE IF 2 * r < d THEN q
        ELSE IF q % 2 = 0 THEN q ELSE q + 1

\* file_size_mb with `digits` decimals, in units of 10^-digits MB:
\* f"{file_size_mb:.1f}" with scale 10, round(file_size_mb, 2) with scale 100
ScaledMB(size, scale) ==
    (size \div BytesPerMB) * scale + RoundHalfEven((size % BytesPerMB) * scale, BytesPerMB)

\* mutant: the check made on the size as it is shown, to one decimal
TooLarge_Shown(size) == ScaledMB(size, 10) > MaxFileMB * 10

\* `file_size_mb > 50`
TooLarge(size) == size > MaxFileMB * BytesPerMB

\* os.path.splitext(filename)[1].lower(): from the last dot, when a character
\* other than a dot precedes it
Suffix(filename) ==
    LET dots == {i \in 1..Len(filename) : filename[i] = "."}
    IN  IF dots = {} THEN <<>>
        ELSE LET d == CHOOSE i \in dots : \A j \in dots : j <= i
             IN  IF \E j \in 1..(d - 1) : filename[j] # "."
                 THEN Lower(SubSeq(filename, d, Len(filename)))
                 ELSE <<>>

---------------------------------------------------------------------------
(* /api/process: one chunk per element (app.py:144-213) *)

\* dict.get: the value under key k, or None
Get(m, k) == IF k \in DOMAIN m THEN Some(m[k]) ELSE None

BBoxDict(bbox) == [x0 |-> bbox.l, y0 |-> bbox.t, x1 |-> bbox.r, y1 |-> bbox.b]

RawMetadata(filename, idx, element) ==
    LET base == [filename |-> filename, chunk_index |-> idx,
                 element_type |-> element.label]
    IN  IF element.prov = <<>> THEN base
        ELSE LET prov == element.prov[1]
             IN  IF IsSome(prov.bbox)
                 THEN [filename |-> filename, chunk_index |-> idx,
                       element_type |-> element.label, page |-> prov.page,
                       bbox |-> BBoxDict(The(prov.bbox))]
                 ELSE [filename |-> filename, chunk_index |-> idx,
                       element_type |-> element.label, page |-> prov.page]

RawChunk(filename, idx, element) ==
    [chunk_id |-> filename \o <<"_">> \o IntToStr(idx),
     text |-> element.text,
     type |-> element.label,
     metadata |-> RawMetadata(filename, idx, element)]

\* mutant: the index counted from one
RawChunks_OneBased(filename, items) ==
    [i \in 1..Len(items) |-> RawChunk(filename, i, items[i])]

\* for idx, element in enumerate(doc.iterate_items()): chunks.append(chunk)
RawChunks(filename, items) ==
    [i \in 1..Len(items) |-> RawChunk(filename, i - 1, items[i])]

\* mutant: the label tested without lower()
IsTableLabel_CaseSensitive(label) == Contains(StrTable, label)

\* `"table" in element.label.lower()`, `"picture" in element.label.lower()`
IsTableLabel(label) == Contains(StrTable, Lower(label))
IsPictureLabel(label) == Contains(StrPicture, Lower(label))

\* the positions 1..n in order
Positions(n) == [i \in 1..n |-> i]

\* the side list `tables`
RawTables(extract_tables, chunks, items) ==
    LET hits == SelectSeq(Positions(Len(items)),
                    LAMBDA i : extract_tables /\ IsTableLabel(items[i].label))
    IN  [k \in 1..Len(hits) |->
            [page |-> Get(chunks[hits[k]].metadata, "page"),
             text |-> items[hits[k]].text,
             bbox |-> Get(chunks[hits[k]].metadata, "bbox")]]

\* the side list `images`
RawImages(extract_images, chunks, items) ==
    LET hits == SelectSeq(Positions(Len(items)),
                    LAMBDA i : extract_images /\ IsPictureLabel(items[i].label))
    IN  [k \in 1..Len(hits) |->
            [page |-> Get(chunks[hits[k]].metadata, "page"),
             caption |-> items[hits[k]].text,
             bbox |-> Get(chunks[hits[k]].metadata, "bbox")]]

\* the JSON body of a successful /api/process response
ProcessBody(file, params, size, doc) ==
    LET chunks == RawChunks(file.filename, doc.items)
        tables == RawTables(params.extract_tables, chunks, doc.items)
        images == RawImages(params.extract_images, chunks, doc.items)
        suffix == Suffix(file.filename)
        metadata == [filename |-> file.filename,
                     file_size_mb |-> ScaledMB(size, 100),
                     file_type |-> IF suffix # <<>> THEN Tail(suffix)
                                   ELSE <<"u","n","k","n","o","w","n">>,
                     total_pages |-> Len(doc.pages),
                     total_chunks |-> Len(chunks),
                     total_tables |-> Len(tables),
                     total_images |-> Len(images)]
        withTables == params.extract_tables /\ tables # <<>>
        withImages == params.extract_images /\ images # <<>>
    IN  IF withTables /\ withImages
        THEN [success |-> TRUE, metadata |-> metadata, chunks |-> chunks,
              tables |-> tables, images |-> images]
        ELSE IF withTables
        THEN [success |-> TRUE, metadata |-> metadata, chunks |-> chunks,
              tables |-> tables]
        ELSE IF withImages
        THEN [success |-> TRUE, metadata |-> metadata, chunks |-> chunks,
              images |-> images]
        ELSE [success |-> TRUE, metadata |-> metadata, chunks |-> chunks]

---------------------------------------------------------------------------
(* /api/process-rag: one chunk per chunker group (app.py:286-340) *)

\* sorted(list(S)) for a set of integers
RECURSIVE Sorted(_)
Sorted(S) ==
    IF S = {} THEN <<>>
    ELSE LET m == CHOOSE x \in S : \A y \in S : x <= y
         IN  <<m>> \o Sorted(S \ {m})

\* mutant: the page of every provenance entry, not of the first alone
PagesOf_EveryProv(doc_items) ==
    UNION {{doc_items[i].prov[k].page : k \in 1..Len(doc_items[i].prov)} :
              i \in 1..Len(doc_items)}

\* pages = set(); if element.prov: pages.add(element.prov[0].page)
PagesOf(doc_items) ==
    {doc_items[i].prov[1].page : i \in {j \in 1..Len(doc_items) : doc_items[j].prov # <<>>}}

\* element_types = set(); element_types.add(element.label)
ElementTypesOf(doc_items) == {doc_items[i].label : i \in 1..Len(doc_items)}

LabelOrder == <<LabelText, LabelFigure, LabelPicture, LabelTable>>

\* The order in which a set of strings is iterated depends on the strings'
\* hashes, which the interpreter salts per process: seed k stands for the
\* salts under which the labels are met in LabelOrder rotated by k.
IterOrder(seed) ==
    [i \in 1..Len(LabelOrder) |-> LabelOrder[((i - 1 + seed) % Len(LabelOrder)) + 1]]

\* list(S) for a set of labels, in the process's iteration order
ListOfSet(S, seed) == SelectSeq(IterOrder(seed), LAMBDA l : l \in S)

HasTable(doc_items) ==
    \E i \in 1..Len(doc_items) : Contains(StrTable, Lower(doc_items[i].label))

HasFigure(doc_items) ==
    \E i \in 1..Len(doc_items) :
        \/ Contains(StrFigure, Lower(doc_items[i].label))
        \/ Contains(StrPicture, Lower(doc_items[i].label))

RagChunk(filename, idx, chunk, seed) ==
    [chunk_id |-> filename \o <<"_","r","a","g","_">> \o IntToStr(idx),
     text |-> chunk.text,
     metadata |-> [filename |-> filename,
                   chunk_index |-> idx,
                   pages |-> Sorted(PagesOf(chunk.meta.doc_items)),
                   element_types |-> ListOfSet(ElementTypesOf(chunk.meta.doc_items), seed),
                   has_table |-> HasTable(chunk.meta.doc_items),
                   has_figure |-> HasFigure(chunk.meta.doc_items),
                   token_count |-> TokenCount(chunk.text)]]

\* for idx, chunk in enumerate(chunker.chunk(doc)): rag_chunks.append(rag_chunk)
RagChunks(filename, chunks, seed) ==
    [i \in 1..Len(chunks) |-> RagChunk(filename, i - 1, chunks[i], seed)]

\* the JSON body of a successful /api/process-rag response
RagBody(file, params, size, doc, seed) ==
    LET rag_chunks == RagChunks(file.filename, doc.chunks, seed)
    IN  [success |-> TRUE,
         metadata |-> [filename |-> file.filename,
                       file_size_mb |-> ScaledMB(size, 100),
                       total_pages |-> Len(doc.pages),
                       total_chunks |-> Len(rag_chunks),
                       chunking_config |-> [max_tokens |-> params.chunk_size,
                                            overlap |-> params.chunk_overlap,
                                            merge_peers |-> params.merge_peers]],
         chunks |-> rag_chunks]

---------------------------------------------------------------------------
(* /api/extract-tables: the tables of every page (app.py:375-405) *)

TableData(page, table) ==
    LET bbox == IF table.prov # <<>> /\ IsSome(table.prov[1].bbox)
                THEN Some(BBoxDict(The(table.prov[1].bbox)))
                ELSE None
    IN  IF IsSome(table.data)
        THEN [page |-> page.page_no, text |-> table.text, bbox |-> bbox,
              structure |-> The(table.data)]
        ELSE [page |-> page.page_no, text |-> table.text, bbox |-> bbox]

\* for page in doc.pages: for table in page.tables: tables.append(table_data)
RECURSIVE PageTables(_)
PageTables(pages) ==
    IF pages = <<>> THEN <<>>
    ELSE [k \in 1..Len(pages[1].tables) |-> TableData(pages[1], pages[1].tables[k])]
         \o PageTables(Tail(pages))

\* the JSON body of a successful /api/extract-tables response
TablesBody(file, doc) ==
    LET tables == PageTables(doc.pages)
    IN  [success |-> TRUE, filename |-> file.filename,
         total_tables |-> Len(tables), tables |-> tables]

---------------------------------------------------------------------------
(* The service: module start-up, /health, and the three upload handlers *)

Requests == 1..NumRequests
TmpNames == 1..NumTmpNames
HashSeeds == 0..MaxHashSeed

EpProcess == "/api/process"
EpRag == "/api/process-rag"
EpTables == "/api/extract-tables"
Endpoints == {EpProcess, EpRag, EpTables}

DefaultParams(ep) ==
    IF ep = EpProcess THEN ProcessDefaults
    ELSE IF ep = EpRag THEN RagDefaults
    ELSE TablesParams

\* a request that has not arrived
IdleReq ==
    [pc |-> "idle", endpoint |-> "", file |-> None, params |-> None,
     content |-> None, tmp |-> None, tmp_path |-> None, doc |-> None,
     response |-> None]

\* raise HTTPException(status_code, detail): no handler is registered for it,
\* so the framework answers with the status and the body {"detail": detail}
HTTPError(status, detail) == [status |-> status, body |-> [detail |-> detail]]

\* return JSONResponse(content=body)
JSONResponse(body) == [status |-> 200, body |-> body]

\* mutant: /api/extract-tables without the check
ConverterMissing_NotForTables(ep) == converter = "None" /\ ep # EpTables

\* `if converter is None` at the top of each handler
ConverterMissing(ep) == converter = "None"

\* the size check of the handler of ep; /api/extract-tables has none
SizeRejected(ep, size) == ep \in {EpProcess, EpRag} /\ TooLarge(size)

\* the detail of the 413 of each handler
TooLargeDetail(ep, size) ==
    IF ep = EpProcess
    THEN [msg |-> "Archivo muy grande. Maximo: 50MB", shown_mb_tenths |-> ScaledMB(size, 10)]
    ELSE [msg |-> "Archivo muy grande (max 50MB)"]

\* `except Exception as e` of each handler: a 500 carrying str(e)
ProcessingError(ep, e) ==
    IF ep = EpProcess
    THEN HTTPError(500, [msg |-> "Error procesando documento", error |-> e])
    ELSE HTTPError(500, [msg |-> e])

\* the file under /tmp/docling that `name` names, if any
FilesNamed(name) == {f \in disk : f.name = name}

\* the body of the handler's successful response
SuccessBody(ep, file, params, size, doc) ==
    IF ep = EpProcess THEN ProcessBody(file, params, size, doc)
    ELSE IF ep = EpRag THEN RagBody(file, params, size, doc, hashseed)
    ELSE TablesBody(file, doc)

\* module level: the try block that builds the DocumentConverter
Startup ==
    /\ \E ok \in BOOLEAN :
          /\ startup' = (IF ok THEN "initialized" ELSE "raised")
          /\ converter' = (IF ok THEN "DocumentConverter" ELSE "None")
    /\ hashseed' \in HashSeeds

Init ==
    /\ \E ok \in BOOLEAN :
          /\ startup = (IF ok THEN "initialized" ELSE "raised")
          /\ converter = (IF ok THEN "DocumentConverter" ELSE "None")
    /\ hashseed \in HashSeeds
    /\ req = [r \in Requests |-> IdleReq]
    /\ disk = {}
    /\ access = {}
    /\ health = None

\* GET /health
HealthCheck ==
    /\ health' = Some([status |-> "ok", converter_ready |-> converter # "None"])
    /\ UNCHANGED <<converter, startup, hashseed, req, disk, access>>

\* A request for ep arrives with upload u and form parameters p; the handler
\* runs to its first await: the converter check, then `await file.read()`.
\* Requests are numbered in order of arrival.
Arrive(r, ep, u, p) ==
    /\ req[r].pc = "idle"
    /\ IF r = 1 THEN TRUE ELSE req[r - 1].pc # "idle"
    /\ req' = [req EXCEPT ![r] =
                 IF ConverterMissing(ep)
                 THEN [IdleReq EXCEPT !.pc = "done", !.endpoint = ep,
                                      !.file = Some(u), !.params = Some(p),
                                      !.response = Some(HTTPError(503,
                                          [msg |-> "Converter no inicializado"]))]
                 ELSE [IdleReq EXCEPT !.pc = "read", !.endpoint = ep,
                                      !.file = Some(u), !.params = Some(p)]]
    /\ UNCHANGED <<converter, startup, hashseed, disk, access, health>>

\* content = await file.read(), then the size check
ReadUpload(r) ==
    /\ req[r].pc = "read"
    /\ LET content == The(req[r].file).content
       IN  req' = [req EXCEPT ![r] =
                     IF SizeRejected(req[r].endpoint, content.size)
                     THEN [@ EXCEPT !.content = Some(content), !.pc = "finally",
                                    !.response = Some(HTTPError(413,
                                        TooLargeDetail(req[r].endpoint, content.size)))]
                     ELSE [@ EXCEPT !.content = Some(content), !.pc = "mktemp"]]
    /\ UNCHANGED <<converter, startup, hashseed, disk, access, health>>

\* tempfile.NamedTemporaryFile(delete=False, ..., dir="/tmp/docling"): a new
\* empty file under a name no file has, or an OSError (no directory, no name)
CreateTemp(r) ==
    /\ req[r].pc = "mktemp"
    /\ \/ \E name \in TmpNames :
             /\ FilesNamed(name) = {}
             /\ disk' = disk \cup {[name |-> name, creator |-> r,
                                    data |-> [size |-> 0, doc |-> EmptyDoc]]}
             /\ req' = [req EXCEPT ![r].tmp = Some(name), ![r].pc = "write"]
       \/ /\ req' = [req EXCEPT ![r].pc = "finally",
                        ![r].response = Some(ProcessingError(req[r].endpoint, "OSError"))]
          /\ disk' = disk
    /\ UNCHANGED <<converter, startup, hashseed, access, health>>

\* what a failed tmp.write(content) may leave in the file
PartialWrites(content) == {[size |-> n, doc |-> EmptyDoc] : n \in {0, content.size \div 2}}

\* tmp.write(content); tmp_path = tmp.name -- or tmp.write raises (disk full)
\* and the with block closes the file, which delete=False keeps
WriteTemp(r) ==
    /\ req[r].pc = "write"
    /\ LET name == The(req[r].tmp)
           old == CHOOSE f \in disk : f.name = name
       IN  \/ /\ disk' = (disk \ {old}) \cup {[old EXCEPT !.data = The(req[r].content)]}
              /\ req' = [req EXCEPT ![r].tmp_path = Some(name), ![r].pc = "convert"]
           \/ \E part \in PartialWrites(The(req[r].content)) :
                 /\ disk' = (disk \ {old}) \cup {[old EXCEPT !.data = part]}
                 /\ req' = [req EXCEPT ![r].pc = "finally",
                               ![r].response = Some(ProcessingError(req[r].endpoint, "OSError"))]
    /\ UNCHANGED <<converter, startup, hashseed, access, health>>

\* result = converter.convert(tmp_path); doc = result.document
Convert(r) ==
    /\ req[r].pc = "convert"
    /\ LET name == The(req[r].tmp_path)
       IN  /\ FilesNamed(name) # {}
           /\ LET f == CHOOSE g \in disk : g.name = name
              IN  /\ access' = access \cup {[by |-> r, op |-> "convert", creator |-> f.creator]}
                  /\ \/ req' = [req EXCEPT ![r].doc = Some(f.data.doc), ![r].pc = "build"]
                     \/ req' = [req EXCEPT ![r].pc = "finally",
                                   ![r].response = Some(ProcessingError(req[r].endpoint,
                                                                         "ConversionError"))]
    /\ UNCHANGED <<converter, startup, hashseed, disk, health>>

\* the loop that builds the chunks (or tables) and the response; reading an
\* attribute the converter's objects lack raises
Build(r) ==
    /\ req[r].pc = "build"
    /\ \/ req' = [req EXCEPT ![r].pc = "finally",
                     ![r].response = Some(JSONResponse(
                         SuccessBody(req[r].endpoint, The(req[r].file), The(req[r].params),
                                     The(req[r].content).size, The(req[r].doc))))]
       \/ req' = [req EXCEPT ![r].pc = "finally",
                     ![r].response = Some(ProcessingError(req[r].endpoint, "AttributeError"))]
    /\ UNCHANGED <<converter, startup, hashseed, disk, access, health>>

\* `if tmp_path and os.path.exists(tmp_path)` of the finally block
MustUnlink(r) == IsSome(req[r].tmp_path) /\ FilesNamed(The(req[r].tmp_path)) # {}

\* finally: os.unlink(tmp_path), whose failure is logged or passed over; the
\* response or the HTTPException then leaves the handler, whose local
\* variables end with it
Finally(r) ==
    /\ req[r].pc = "finally"
    /\ req' = [req EXCEPT ![r] = [@ EXCEPT !.pc = "done", !.content = None, !.tmp = None,
                                           !.tmp_path = None, !.doc = None]]
    /\ IF MustUnlink(r)
       THEN LET f == CHOOSE g \in disk : g.name = The(req[r].tmp_path)
            IN  \/ /\ disk' = disk \ {f}
                   /\ access' = access \cup {[by |-> r, op |-> "unlink", creator |-> f.creator]}
                \/ /\ disk' = disk
                   /\ access' = access
       ELSE UNCHANGED <<disk, access>>
    /\ UNCHANGED <<converter, startup, hashseed, health>>

\* one step of request r's handler
Step(r) ==
    \/ ReadUpload(r)
    \/ CreateTemp(r)
    \/ WriteTemp(r)
    \/ Convert(r)
    \/ Build(r)
    \/ Finally(r)

\* the service process is started again once it is quiet
Restart ==
    /\ \A r \in Requests : req[r].pc \in {"idle", "done"}
    /\ Startup
    /\ UNCHANGED <<req, disk, access, health>>

---------------------------------------------------------------------------
(* Specifications *)

\* concurrent requests to the three endpoints, at and just over the size cap
Next ==
    \/ \E r \in Requests :
          /\ req[r].pc = "idle"
          /\ \E ep \in Endpoints, u \in LifeUploads : Arrive(r, ep, u, DefaultParams(ep))
    \/ \E r \in Requests : Step(r)
    \/ HealthCheck

Spec == Init /\ [][Next]_vars

\* two concurrent requests to the three endpoints with an upload at the size
\* cap, and /health
NextHealth ==
    \/ \E r \in {1, 2} :
          /\ req[r].pc = "idle"
          /\ \E ep \in Endpoints : Arrive(r, ep, Upload(MaxBytes, SampleDoc), DefaultParams(ep))
    \/ \E r \in {1, 2} : Step(r)
    \/ HealthCheck

SpecHealth == Init /\ [][NextHealth]_vars

\* one request over every document and chunking within the bounds
NextChunks ==
    \/ /\ req[1].pc = "idle"
       /\ \E u \in RawUploads, p \in ProcessParams : Arrive(1, EpProcess, u, p)
    \/ /\ req[1].pc = "idle"
       /\ \E u \in RagUploads : Arrive(1, EpRag, u, RagDefaults)
    \/ Step(1)

SpecChunks == Init /\ [][NextChunks]_vars

\* one request with an upload around the size cap
NextBoundary ==
    \/ /\ req[1].pc = "idle"
       /\ \E ep \in {EpProcess, EpRag}, u \in BoundaryUploads :
             Arrive(1, ep, u, DefaultParams(ep))
    \/ Step(1)

SpecBoundary == Init /\ [][NextBoundary]_vars

\* the same upload sent twice to /api/process-rag, the service possibly
\* restarted in between
NextRepro ==
    \/ /\ req[1].pc = "idle"
       /\ \E u \in RagUploads : Arrive(1, EpRag, u, RagDefaults)
    \/ /\ req[1].pc = "done"
       /\ req[2].pc = "idle"
       /\ Arrive(2, req[1].endpoint, The(req[1].file), The(req[1].params))
    \/ \E r \in {1, 2} : Step(r)
    \/ Restart

SpecRepro == Init /\ [][NextRepro]_vars

---------------------------------------------------------------------------
(* Properties *)

Arrived(r) == req[r].pc # "idle"
Done(r) == req[r].pc = "done"
Decided(r) == req[r].pc \in {"finally", "done"}
Status(r) == The(req[r].response).status
Body(r) == The(req[r].response).body
UploadOf(r) == The(req[r].file)
SizeOf(r) == UploadOf(r).content.size
DocOf(r) == UploadOf(r).content.doc
FilesOf(r) == {f \in disk : f.creator = r}
Succeeded(r, ep) == Done(r) /\ req[r].endpoint = ep /\ Status(r) = 200

\* C1: once a request has returned, no temp file it created exists, whatever
\* the path it left by (success, 413, or an exception at any step).
C1_TempFileGoneOnReturn ==
    \A r \in Requests : Done(r) => FilesOf(r) = {}

\* C2: on every upload endpoint an upload over 50 MB is answered 413 with no
\* temp file written and no conversion, and no temp file holds more than 50 MB.
C2_OversizeNeverWritten ==
    /\ \A f \in disk : f.data.size <= MaxBytes
    /\ \A r \in Requests :
          (Arrived(r) /\ startup = "initialized" /\ SizeOf(r) > MaxBytes) =>
              /\ req[r].pc \in {"read", "finally", "done"}
              /\ Decided(r) => Status(r) = 413
              /\ FilesOf(r) = {}
              /\ \A a \in access : a.by # r

\* C3: when the converter failed to initialize, every request to the three
\* endpoints is answered 503 with no upload read, no temp file and no
\* conversion; /health reports converter_ready exactly when start-up
\* succeeded, and the converter stays what start-up made it.
C3_UnavailableRefusesAll ==
    /\ (converter # "None") = (startup = "initialized")
    /\ IsSome(health) => The(health).converter_ready = (startup = "initialized")
    /\ startup = "raised" =>
          /\ disk = {}
          /\ access = {}
          /\ \A r \in Requests :
                /\ req[r].pc \in {"idle", "done"}
                /\ req[r].content = None /\ req[r].tmp = None /\ req[r].doc = None
                /\ Done(r) => Status(r) = 503

C3_Witness ==
    /\ startup = "raised"
    /\ IsSome(health) /\ ~The(health).converter_ready
    /\ Done(1) /\ req[1].endpoint = EpTables /\ Status(1) = 503
    /\ Done(2) /\ req[2].endpoint = EpProcess /\ Status(2) = 503

\* C4: every response of the POST endpoints carries `success`, true on
\* success and false on failure, and a failure carries an error message.
C4_EnvelopeAlwaysHasSuccess ==
    \A r \in Requests :
        Done(r) =>
            /\ "success" \in DOMAIN Body(r)
            /\ Body(r).success = (Status(r) = 200)
            /\ Status(r) # 200 => ("error" \in DOMAIN Body(r) \/ "detail" \in DOMAIN Body(r))

\* C5: in a successful /api/process or /api/process-rag response the chunk at
\* position i has chunk_index i (from zero), the chunk ids are pairwise
\* distinct, total_chunks is the number of chunks, and the chunks are the
\* elements (raw) or the chunker's groups (RAG) in order, none left out.
C5_ChunkIndexing ==
    \A r \in Requests : \A ep \in {EpProcess, EpRag} :
        Succeeded(r, ep) =>
            LET chunks == Body(r).chunks
                source == IF ep = EpProcess THEN DocOf(r).items ELSE DocOf(r).chunks
            IN  /\ \A i \in 1..Len(chunks) : chunks[i].metadata.chunk_index = i - 1
                /\ \A i, j \in 1..Len(chunks) :
                      i # j => chunks[i].chunk_id # chunks[j].chunk_id
                /\ Body(r).metadata.total_chunks = Len(chunks)
                /\ Len(chunks) = Len(source)
                /\ \A i \in 1..Len(chunks) : chunks[i].text = source[i].text

C5_Witness ==
    /\ Succeeded(1, EpProcess)
    /\ Len(Body(1).chunks) = 2
    /\ Body(1).chunks[1].text = TextEmpty
    /\ Body(1).chunks[2].metadata.chunk_index = 1

\* C6: the pages of a RAG chunk are strictly ascending and are exactly the
\* first-provenance pages of its items that have provenance; items without
\* provenance add nothing, and with none having provenance pages is empty.
C6_RagPages ==
    \A r \in Requests :
        Succeeded(r, EpRag) =>
            \A i \in 1..Len(Body(r).chunks) :
                LET pages == Body(r).chunks[i].metadata.pages
                    items == DocOf(r).chunks[i].meta.doc_items
                    located == {k \in 1..Len(items) : Len(items[k].prov) > 0}
                IN  /\ \A a, b \in 1..Len(pages) : a < b => pages[a] < pages[b]
                    /\ Range(pages) = {Head(items[k].prov).page : k \in located}
                    /\ located = {} => pages = <<>>

C6_Witness ==
    /\ Succeeded(1, EpRag)
    /\ Len(Body(1).chunks) = 1
    /\ LET items == DocOf(1).chunks[1].meta.doc_items
       IN  /\ Len(items) = 2
           /\ items[1].prov = <<ProvPage2, ProvPage1>>
           /\ items[2].prov = <<ProvPage1>>
    /\ Body(1).chunks[1].metadata.pages = <<1, 2>>

\* C7: the same upload processed twice by /api/process-rag with the same
\* configuration gives the same response, element_types included.
C7_Reproducible ==
    (/\ Succeeded(1, EpRag) /\ Succeeded(2, EpRag)
     /\ req[1].file = req[2].file /\ req[1].params = req[2].params)
        => Body(1) = Body(2)

\* C8 as stated: an upload shown as 50.0 MB (to one decimal) is accepted, and
\* one shown as 50.1 MB is answered 413 with no temp file created.
C8_ShownBoundary ==
    \A r \in Requests :
        (Decided(r) /\ startup = "initialized" /\ req[r].endpoint \in {EpProcess, EpRag}) =>
            /\ ScaledMB(SizeOf(r), 10) = 500 => Status(r) # 413
            /\ ScaledMB(SizeOf(r), 10) = 501 => (Status(r) = 413 /\ FilesOf(r) = {})

\* C8 amended: on /api/process and /api/process-rag an upload of at most
\* 50 * 1024 * 1024 bytes passes the size check, and a larger one (so every
\* one shown as 50.1 MB, and those just over the cap that are shown as
\* 50.0 MB) is answered 413 with no temp file created.
C8_ByteBoundary ==
    \A r \in Requests :
        (Arrived(r) /\ startup = "initialized" /\ req[r].endpoint \in {EpProcess, EpRag}) =>
            /\ SizeOf(r) <= MaxBytes => (IsSome(req[r].response) => Status(r) # 413)
            /\ SizeOf(r) > MaxBytes =>
                  /\ req[r].pc \in {"read", "finally", "done"}
                  /\ Decided(r) => Status(r) = 413
                  /\ FilesOf(r) = {}
            /\ (ScaledMB(SizeOf(r), 10) = 501 /\ Decided(r)) => Status(r) = 413

C8_Witness ==
    /\ Done(1) /\ req[1].endpoint = EpProcess
    /\ SizeOf(1) = MaxBytes + 1
    /\ Status(1) = 413
    /\ Body(1).detail.shown_mb_tenths = 500
    /\ disk = {}

\* the elements of a list that a side list collects, in order
Matching(items, word) == SelectSeq(items, LAMBDA e : Contains(word, Lower(e.label)))

\* the page a side-list record shows for element e
FirstPage(e) == IF e.prov = <<>> THEN None ELSE Some(Head(e.prov).page)

\* C9: in a successful /api/process response `tables` is present iff
\* extract_tables was set and some label contains "table" in any case; it
\* then holds one record per such element, in order, with the element's
\* first-provenance page; likewise `images` with extract_images and
\* "picture"; neither is present empty, and total_tables / total_images
\* count the records collected.
C9_SideLists ==
    \A r \in Requests :
        Succeeded(r, EpProcess) =>
            LET body == Body(r)
                params == The(req[r].params)
                tabs == Matching(DocOf(r).items, StrTable)
                pics == Matching(DocOf(r).items, StrPicture)
            IN  /\ ("tables" \in DOMAIN body) = (params.extract_tables /\ tabs # <<>>)
                /\ "tables" \in DOMAIN body =>
                      /\ Len(body.tables) = Len(tabs)
                      /\ \A k \in 1..Len(tabs) :
                            /\ body.tables[k].page = FirstPage(tabs[k])
                            /\ body.tables[k].text = tabs[k].text
                /\ body.metadata.total_tables = (IF params.extract_tables THEN Len(tabs) ELSE 0)
                /\ ("images" \in DOMAIN body) = (params.extract_images /\ pics # <<>>)
                /\ "images" \in DOMAIN body =>
                      /\ Len(body.images) = Len(pics)
                      /\ \A k \in 1..Len(pics) :
                            /\ body.images[k].page = FirstPage(pics[k])
                            /\ body.images[k].caption = pics[k].text
                /\ body.metadata.total_images = (IF params.extract_images THEN Len(pics) ELSE 0)

C9_Witness ==
    /\ Succeeded(1, EpProcess)
    /\ The(req[1].params).extract_tables
    /\ Len(DocOf(1).items) = 2
    /\ DocOf(1).items[1].label = LabelText
    /\ DocOf(1).items[2].label = LabelTable
    /\ "tables" \in DOMAIN Body(1)
    /\ Len(Body(1).tables) = 1
    /\ Body(1).tables[1].page = Some(2)

\* what request r's handler answers on success, from its own upload and
\* parameters
OwnAnswer(r) ==
    JSONResponse(SuccessBody(req[r].endpoint, UploadOf(r), The(req[r].params),
                             SizeOf(r), DocOf(r)))

\* C10: under any interleaving each request converts and deletes only the
\* temp file it created, its response depends on its own upload and
\* parameters alone, and once every request has returned no temp file of
\* any of them remains.
C10_Independent ==
    /\ \A a \in access : a.by = a.creator
    /\ \A r \in Requests : (Done(r) /\ Status(r) = 200) => The(req[r].response) = OwnAnswer(r)
    /\ (\A r \in Requests : Done(r)) => disk = {}

=============================================================================
